---- MODULE Spec2Model ----
(***************************************************************************)
(* The whitelist store of getlantern/detour (whitelist.go) and the dialer  *)
(* that consults it.  Addresses are sequences of one-character strings, so *)
(* that port stripping and the parent-domain walk are computed on the text *)
(* as the Go code computes them.                                           *)
(***************************************************************************)
EXTENDS Naturals, Sequences, FiniteSets, TLC

VARIABLES whitelist, forceWhitelist, last, dials, forceExclude, country,
          muWhitelist, goroutines

vars == <<whitelist, forceWhitelist, last, dials, forceExclude, country,
          muWhitelist, goroutines>>

\* The lock and the goroutines that call the store through it.
lockVars == <<muWhitelist, goroutines>>

\* The variables that the functions of whitelist.go called as one step and
\* the steps of a dial never write.
others == <<forceExclude, country, lockVars>>

\* -------------------------------------------------------------- bounds
\* A cap on the number of keys the two maps hold together (the Go maps
\* are unbounded).
MaxEntries == 3

\* -------------------------------------------------------------- text
EmptyStr == <<>>

\* strings.Index / strings.LastIndex on a sequence of characters, 1-based,
\* 0 when the character does not occur.
IndexOf(s, ch) ==
    IF \E i \in 1..Len(s) : s[i] = ch
    THEN CHOOSE i \in 1..Len(s) : s[i] = ch /\ \A j \in 1..(i - 1) : s[j] # ch
    ELSE 0

LastIndexOf(s, ch) ==
    IF \E i \in 1..Len(s) : s[i] = ch
    THEN CHOOSE i \in 1..Len(s) : s[i] = ch /\ \A j \in (i + 1)..Len(s) : s[j] # ch
    ELSE 0

\* net.SplitHostPort: the port starts after the last colon; a host in
\* brackets ends at the first "]", which must sit right before that colon;
\* an unbracketed host holds no colon.
SplitHostPort(hostport) ==
    LET i == LastIndexOf(hostport, ":")
        fail == [host |-> EmptyStr, port |-> EmptyStr, err |-> TRUE]
    IN  IF i = 0 THEN fail
        ELSE IF hostport[1] = "["
        THEN LET end == IndexOf(hostport, "]")
             IN  IF end = 0 \/ end + 1 # i THEN fail
                 ELSE IF IndexOf(SubSeq(hostport, 2, Len(hostport)), "[") # 0
                         \/ IndexOf(SubSeq(hostport, end + 1, Len(hostport)), "]") # 0
                 THEN fail
                 ELSE [host |-> SubSeq(hostport, 2, end - 1),
                       port |-> SubSeq(hostport, i + 1, Len(hostport)),
                       err  |-> FALSE]
        ELSE LET host == SubSeq(hostport, 1, i - 1)
             IN  IF IndexOf(host, ":") # 0 THEN fail
                 ELSE IF IndexOf(hostport, "[") # 0 \/ IndexOf(hostport, "]") # 0
                 THEN fail
                 ELSE [host |-> host,
                       port |-> SubSeq(hostport, i + 1, Len(hostport)),
                       err  |-> FALSE]

\* hostOnly: the host of host:port, the address itself when it does not split.
hostOnly(addr) ==
    LET r == SplitHostPort(addr)
    IN  IF r.err THEN addr ELSE r.host

\* A parent-domain step that cuts at the last dot instead of the first.
getParentDomainLastDot(addr) ==
    LET i == LastIndexOf(addr, ".")
    IN  IF i = 0 THEN EmptyStr ELSE SubSeq(addr, i + 1, Len(addr))

\* A parent-domain step that drops one character instead of one label.
getParentDomainOneChar(addr) ==
    IF Len(addr) < 2 THEN EmptyStr ELSE SubSeq(addr, 2, Len(addr))

\* getParentDomain: strings.SplitN(addr, ".", 2); "" without a dot, else
\* everything after the first dot.
getParentDomain(addr) ==
    LET i == IndexOf(addr, ".")
    IN  IF i = 0 THEN EmptyStr ELSE SubSeq(addr, i + 1, Len(addr))

\* -------------------------------------------------------------- universe
\* The addresses the operations are called with.
A_c    == <<"c">>
A_bc   == <<"b", ".", "c">>
A_bc8  == <<"b", ".", "c", ":", "8">>
A_bc9  == <<"b", ".", "c", ":", "9">>
A_abc  == <<"a", ".", "b", ".", "c">>
A_abc9 == <<"a", ".", "b", ".", "c", ":", "9">>
A_xbc8 == <<"a", "b", ".", "c", ":", "8">>
A_bxc  == <<"b", "a", ".", "c">>
A_p8   == <<":", "8">>

Addrs == {A_c, A_bc, A_bc8, A_bc9, A_abc, A_abc9, A_xbc8, A_bxc, A_p8}

\* -------------------------------------------------------------- store
\* wlEntry{permanent}
wlEntry(permanent) == [permanent |-> permanent]

\* m[k] = v on a Go map.
MapPut(m, k, v) == [x \in (DOMAIN m) \cup {k} |-> IF x = k THEN v ELSE m[x]]

\* delete(m, k) on a Go map.
MapDelete(m, k) == [x \in (DOMAIN m) \ {k} |-> m[x]]

EmptyMap == [x \in {} |-> wlEntry(FALSE)]

Entries == Cardinality(DOMAIN whitelist) + Cardinality(DOMAIN forceWhitelist)

\* Room for key k in map m under the cap.
Room(m, k) == k \in DOMAIN m \/ Entries < MaxEntries

\* The loop of whitelisted: the host, then each parent domain, until "".
RECURSIVE wlWalk(_, _, _)
wlWalk(wl, fw, addr) ==
    IF addr = EmptyStr THEN FALSE
    ELSE IF addr \in DOMAIN fw THEN TRUE
    ELSE IF addr \in DOMAIN wl THEN TRUE
    ELSE wlWalk(wl, fw, getParentDomain(addr))

\* A lookup that checks the host alone and never walks to its parents.
whitelistedExact(wl, fw, _addr) ==
    LET k == hostOnly(_addr)
    IN  k # EmptyStr /\ (k \in DOMAIN fw \/ k \in DOMAIN wl)

whitelistedIn(wl, fw, _addr) == wlWalk(wl, fw, hostOnly(_addr))

whitelisted(_addr) == whitelistedIn(whitelist, forceWhitelist, _addr)

\* A check that looks the address up as given, port included.
wlTemporarilyRaw(wl, addr) == addr \in DOMAIN wl /\ wl[addr].permanent = FALSE

\* wlTemporarily answering for the parent domains as whitelisted does.
wlTemporarilyWalk(wl, addr) ==
    LET h == hostOnly(addr)
    IN  \E i \in 0..Len(h) :
           /\ i = 0 \/ h[i] = "."
           /\ SubSeq(h, i + 1, Len(h)) \in DOMAIN wl
           /\ wl[SubSeq(h, i + 1, Len(h))].permanent = FALSE

wlTemporarilyIn(wl, addr) ==
    LET k == hostOnly(addr)
    IN  k \in DOMAIN wl /\ wl[k].permanent = FALSE

wlTemporarily(addr) == wlTemporarilyIn(whitelist, addr)

\* All orders in which a range over the map can visit the keys in S.
RECURSIVE Orderings(_)
Orderings(S) ==
    IF S = {} THEN {<<>>}
    ELSE UNION {{<<k>> \o t : t \in Orderings(S \ {k})} : k \in S}

PermanentKeys(wl) == {k \in DOMAIN wl : wl[k].permanent}

\* The results DumpWhitelist can return: make([]string, 1) is one empty
\* string, and the permanent keys are appended to it in map order.
DumpResults(wl) == {<<EmptyStr>> \o t : t \in Orderings(PermanentKeys(wl))}

NoDump == <<>>

Call(op, addr, permanent, ret, dump) ==
    [op |-> op, addr |-> addr, permanent |-> permanent, ret |-> ret, dump |-> dump]

\* -------------------------------------------------------------- operations
\* forceWhitelist[hostOnly(addr)] = wlEntry{true}
ForceWhitelistMap(fw, addr) == MapPut(fw, hostOnly(addr), wlEntry(TRUE))

\* An add that ignores its permanent argument.
AddToWlMapAlwaysPermanent(wl, addr, permanent) ==
    MapPut(wl, hostOnly(addr), wlEntry(TRUE))

\* An add that stores the address as given, port included.
AddToWlMapRaw(wl, addr, permanent) == MapPut(wl, addr, wlEntry(permanent))

\* whitelist[hostOnly(addr)] = wlEntry{permanent}
AddToWlMap(wl, addr, permanent) == MapPut(wl, hostOnly(addr), wlEntry(permanent))

\* A removal that deletes the address as given, port included.
RemoveFromWlMapRaw(wl, addr) == MapDelete(wl, addr)

\* A removal that walks up the parent domains as whitelisted does and
\* deletes the first stored one.
RECURSIVE removeWalk(_, _)
removeWalk(wl, addr) ==
    IF addr = EmptyStr THEN wl
    ELSE IF addr \in DOMAIN wl THEN MapDelete(wl, addr)
    ELSE removeWalk(wl, getParentDomain(addr))

RemoveFromWlMapWalk(wl, addr) == removeWalk(wl, hostOnly(addr))

\* delete(whitelist, hostOnly(addr))
RemoveFromWlMap(wl, addr) == MapDelete(wl, hostOnly(addr))

ForceWhitelist(addr) ==
    /\ Room(forceWhitelist, hostOnly(addr))
    /\ forceWhitelist' = ForceWhitelistMap(forceWhitelist, addr)
    /\ last' = Call("ForceWhitelist", addr, TRUE, FALSE, NoDump)
    /\ UNCHANGED <<whitelist, dials>>
    /\ UNCHANGED others

AddToWl(addr, permanent) ==
    /\ Room(whitelist, hostOnly(addr))
    /\ whitelist' = AddToWlMap(whitelist, addr, permanent)
    /\ last' = Call("AddToWl", addr, permanent, FALSE, NoDump)
    /\ UNCHANGED <<forceWhitelist, dials>>
    /\ UNCHANGED others

\* A removal that deletes the host from both maps.
RemoveFromWlBoth(addr) ==
    /\ whitelist' = RemoveFromWlMap(whitelist, addr)
    /\ forceWhitelist' = MapDelete(forceWhitelist, hostOnly(addr))
    /\ last' = Call("RemoveFromWl", addr, FALSE, FALSE, NoDump)
    /\ UNCHANGED dials
    /\ UNCHANGED others

RemoveFromWl(addr) ==
    /\ whitelist' = RemoveFromWlMap(whitelist, addr)
    /\ last' = Call("RemoveFromWl", addr, FALSE, FALSE, NoDump)
    /\ UNCHANGED <<forceWhitelist, dials>>
    /\ UNCHANGED others

DumpWhitelist ==
    /\ \E wl \in DumpResults(whitelist) :
          last' = Call("DumpWhitelist", EmptyStr, FALSE, FALSE, wl)
    /\ UNCHANGED <<whitelist, forceWhitelist, dials>>
    /\ UNCHANGED others

Whitelisted(_addr) ==
    /\ last' = Call("whitelisted", _addr, FALSE, whitelisted(_addr), NoDump)
    /\ UNCHANGED <<whitelist, forceWhitelist, dials>>
    /\ UNCHANGED others

WlTemporarily(addr) ==
    /\ last' = Call("wlTemporarily", addr, FALSE, wlTemporarily(addr), NoDump)
    /\ UNCHANGED <<whitelist, forceWhitelist, dials>>
    /\ UNCHANGED others

\* -------------------------------------------------------------- dialer
\* The dial function built from a direct-dial and a detour-dial function.
\* Two dial requests can be in progress at once.
Dials == {"d1", "d2"}

\* The address dial requests are made for, and the addresses the store's
\* mutators are called with while dials are in progress: the dialled host
\* and its parent domain.
DialAddrs == {A_bc8}
DialUserAddrs == {A_bc, A_c}

Failures == {"DialFailed", "DialTimedOut", "ReadTimedOut", "ReadFailed",
             "ContentHijacked", "DNSHijacked"}
DialOutcome == Failures \cup {"Success"}
DialResults == {"DialFailed", "DialTimedOut", "Connected"}
ReadOutcomes == {"ReadTimedOut", "ReadFailed", "ContentHijacked", "DNSHijacked", "Success"}

\* The country rulesets: none, and the ruleset of Iran with its forged
\* block page (iranResp) and its poisoned-DNS address (iranRedirectAddr).
Countries == {"none", "IR"}
FirstBytes == {"directMsg", "iranResp"}
ConnAddrs == {"real", "iranRedirectAddr"}
ReadResults == {"timeout", "error", "ok"}

\* The active ruleset's signature matches the first bytes of the response.
classifyResponseNever(c, rawFirstBytes) == FALSE

classifyResponse(c, rawFirstBytes) == c = "IR" /\ rawFirstBytes = "iranResp"

\* The connected address is the active ruleset's poisoned-DNS address.
classifyResolvedAddress(c, ip) == c = "IR" /\ ip = "iranRedirectAddr"

\* The outcome of the first read under ruleset c.
ReadOutcome(c, rd, rawFirstBytes, ip) ==
    IF rd = "timeout" THEN "ReadTimedOut"
    ELSE IF rd = "error" THEN "ReadFailed"
    ELSE IF classifyResolvedAddress(c, ip) THEN "DNSHijacked"
    ELSE IF classifyResponse(c, rawFirstBytes) THEN "ContentHijacked"
    ELSE "Success"

\* A dial request: its state, its address, whether a non-idempotent payload
\* has been transmitted on the direct connection, the classified outcome,
\* what the detour function returned, what the dial returns, how often
\* each dial function was invoked, the first bytes and the connected
\* address that a first read without I/O error has handed to the classifier,
\* and the answer of the store lookup that guards a pending store update.
IdleDial ==
    [pc |-> "Init", addr |-> EmptyStr, transmitted |-> FALSE, outcome |-> "none",
     dres |-> "none", conn |-> "none", err |-> FALSE,
     nDirect |-> 0, nDetour |-> 0, bytes |-> "none", ip |-> "none",
     guard |-> FALSE]

\* Routing: detour only when the address is whitelisted.
RouteOf(wl, fw, addr) ==
    IF whitelistedIn(wl, fw, addr) THEN "DetourOnly" ELSE "DirectAttempt"

\* Already permanently or force whitelisted: the host or one of its parent
\* domains is force-whitelisted or holds a permanent entry.
RECURSIVE permWalk(_, _, _)
permWalk(wl, fw, addr) ==
    IF addr = EmptyStr THEN FALSE
    ELSE IF addr \in DOMAIN fw THEN TRUE
    ELSE IF addr \in DOMAIN wl /\ wl[addr].permanent THEN TRUE
    ELSE permWalk(wl, fw, getParentDomain(addr))

PermOrForced(wl, fw, addr) == permWalk(wl, fw, hostOnly(addr))

\* Add the host to the temporary entries unless it is already permanently
\* or force whitelisted.
AddTemporary(wl, fw, addr) ==
    IF PermOrForced(wl, fw, addr) THEN wl ELSE AddToWlMap(wl, addr, FALSE)

\* A classification that records every outcome, Success included.
ClassifyStoreAlways(wl, fw, addr, outcome) == AddTemporary(wl, fw, addr)

\* The whitelist after classifying an outcome: unchanged on Success.
ClassifyStore(wl, fw, addr, outcome) ==
    IF outcome = "Success" THEN wl ELSE AddTemporary(wl, fw, addr)

\* The eviction rule: a temporary host is removed when its detour
\* connection fails.
EvictStore(wl, addr) ==
    IF wlTemporarilyIn(wl, addr) THEN RemoveFromWlMap(wl, addr) ELSE wl

\* What the dial returns for a result of the detour function.
DetourReturn(d, r) ==
    [d EXCEPT !.dres = r,
              !.conn = IF r = "conn" THEN "detour" ELSE "none",
              !.err = (r = "error"),
              !.nDetour = d.nDetour + 1,
              !.pc = "UseDetour"]

\* A dial whose returned connection has failed.
FailedDial(d) == [IdleDial EXCEPT !.pc = "Failed", !.addr = d.addr, !.conn = d.conn]

StartDial(d, addr) ==
    /\ dials[d].pc = "Init"
    /\ dials' = [dials EXCEPT ![d] = [IdleDial EXCEPT !.pc = "Routing", !.addr = addr]]
    /\ UNCHANGED <<whitelist, forceWhitelist, last>>
    /\ UNCHANGED others

Route(d) ==
    /\ dials[d].pc = "Routing"
    /\ dials' = [dials EXCEPT ![d].pc = RouteOf(whitelist, forceWhitelist, dials[d].addr)]
    /\ UNCHANGED <<whitelist, forceWhitelist, last>>
    /\ UNCHANGED others

DetourOnly(d) ==
    /\ dials[d].pc = "DetourOnly"
    /\ \E r \in {"conn", "error"} :
          dials' = [dials EXCEPT ![d] = DetourReturn(dials[d], r)]
    /\ UNCHANGED <<whitelist, forceWhitelist, last>>
    /\ UNCHANGED others

DirectDial(d) ==
    /\ dials[d].pc = "DirectAttempt"
    /\ \E r \in DialResults, sent \in BOOLEAN :
          /\ r # "Connected" => ~sent
          /\ dials' = [dials EXCEPT
                ![d].nDirect = dials[d].nDirect + 1,
                ![d].transmitted = sent,
                ![d].outcome = IF r = "Connected" THEN "none" ELSE r,
                ![d].pc = IF r = "Connected" THEN "ReadingFirst" ELSE "Classify"]
    /\ UNCHANGED <<whitelist, forceWhitelist, last>>
    /\ UNCHANGED others

\* A first read with no deadline on a connection whose peer never answers.
FirstReadUnbounded(d) ==
    /\ dials[d].pc = "ReadingFirst"
    /\ UNCHANGED vars

FirstRead(d) ==
    /\ dials[d].pc = "ReadingFirst"
    /\ \E rd \in ReadResults, rawFirstBytes \in FirstBytes, ip \in ConnAddrs :
          LET o == ReadOutcome(country, rd, rawFirstBytes, ip)
          IN  /\ o \in ReadOutcomes
              /\ dials' = [dials EXCEPT
                    ![d].outcome = o,
                    ![d].bytes = IF rd = "ok" THEN rawFirstBytes ELSE "none",
                    ![d].ip = IF rd = "ok" THEN ip ELSE "none",
                    ![d].pc = "Classify"]
    /\ UNCHANGED <<whitelist, forceWhitelist, last>>
    /\ UNCHANGED others

Classify(d) ==
    LET c == [dials[d] EXCEPT !.bytes = "none", !.ip = "none"]
        wl == ClassifyStore(whitelist, forceWhitelist, c.addr, c.outcome)
    IN  /\ c.pc = "Classify"
        /\ whitelist' = wl
        /\ dials' = [dials EXCEPT ![d] =
              IF c.outcome = "Success"
              THEN [c EXCEPT !.pc = "UseDirect", !.conn = "direct"]
              ELSE IF c.transmitted
              THEN [c EXCEPT !.pc = "UseDetour", !.err = TRUE]
              ELSE [c EXCEPT !.pc = "DetourFallback"]]
        /\ UNCHANGED <<forceWhitelist, last>>
        /\ UNCHANGED others

DetourFallback(d) ==
    /\ dials[d].pc = "DetourFallback"
    /\ \E r \in {"conn", "error"} :
          dials' = [dials EXCEPT ![d] = DetourReturn(dials[d], r)]
    /\ UNCHANGED <<whitelist, forceWhitelist, last>>
    /\ UNCHANGED others

DetourConnFails(d) ==
    /\ dials[d].pc = "UseDetour"
    /\ dials[d].conn = "detour"
    /\ whitelist' = EvictStore(whitelist, dials[d].addr)
    /\ dials' = [dials EXCEPT ![d] = FailedDial(dials[d])]
    /\ UNCHANGED <<forceWhitelist, last>>
    /\ UNCHANGED others

DirectConnFails(d) ==
    /\ dials[d].pc = "UseDirect"
    /\ whitelist' = AddTemporary(whitelist, forceWhitelist, dials[d].addr)
    /\ dials' = [dials EXCEPT ![d] = FailedDial(dials[d])]
    /\ UNCHANGED <<forceWhitelist, last>>
    /\ UNCHANGED others

Close(d) ==
    /\ dials[d].pc \in {"UseDirect", "UseDetour", "Failed"}
    /\ dials' = [dials EXCEPT ![d] = IdleDial]
    /\ UNCHANGED <<whitelist, forceWhitelist, last>>
    /\ UNCHANGED others

\* ------------------------------------------------- dial steps, call by call
\* The store is reached through its functions only, and each of them takes
\* and releases muWhitelist on its own: the lookup that guards an update and
\* the update are two calls, and other calls can run between them.

\* Classification, up to the lookup that guards the temporary entry.
ClassifyCheck(d) ==
    LET c == [dials[d] EXCEPT !.bytes = "none", !.ip = "none"]
    IN  /\ c.pc = "Classify"
        /\ dials' = [dials EXCEPT ![d] =
              IF c.outcome = "Success"
              THEN [c EXCEPT !.pc = "UseDirect", !.conn = "direct"]
              ELSE [c EXCEPT !.pc = "ClassifyStore",
                             !.guard = PermOrForced(whitelist, forceWhitelist, c.addr)]]
        /\ UNCHANGED <<whitelist, forceWhitelist, last>>
        /\ UNCHANGED others

\* Classification, from the call of AddToWl(addr, false) on.
ClassifyAct(d) ==
    LET c == [dials[d] EXCEPT !.guard = FALSE]
    IN  /\ dials[d].pc = "ClassifyStore"
        /\ whitelist' = IF dials[d].guard THEN whitelist
                        ELSE AddToWlMap(whitelist, c.addr, FALSE)
        /\ dials' = [dials EXCEPT ![d] =
              IF c.transmitted
              THEN [c EXCEPT !.pc = "UseDetour", !.err = TRUE]
              ELSE [c EXCEPT !.pc = "DetourFallback"]]
        /\ UNCHANGED <<forceWhitelist, last>>
        /\ UNCHANGED others

\* The detour connection fails: the call of wlTemporarily(addr).
EvictCheck(d) ==
    /\ dials[d].pc = "UseDetour"
    /\ dials[d].conn = "detour"
    /\ dials' = [dials EXCEPT ![d].pc = "Evict",
                              ![d].guard = wlTemporarilyIn(whitelist, dials[d].addr)]
    /\ UNCHANGED <<whitelist, forceWhitelist, last>>
    /\ UNCHANGED others

\* The eviction, from the call of RemoveFromWl(addr) on.
EvictAct(d) ==
    /\ dials[d].pc = "Evict"
    /\ whitelist' = IF dials[d].guard THEN RemoveFromWlMap(whitelist, dials[d].addr)
                    ELSE whitelist
    /\ dials' = [dials EXCEPT ![d] = FailedDial(dials[d])]
    /\ UNCHANGED <<forceWhitelist, last>>
    /\ UNCHANGED others

\* -------------------------------------------------------------- locking
\* The goroutines that call the store concurrently, and the address they
\* call it with.
Goroutines == {"g1", "g2", "g3"}
LockAddrs == {A_bc8}
StoreOps == {"ForceWhitelist", "AddToWl", "RemoveFromWl", "DumpWhitelist",
             "whitelisted", "wlTemporarily"}

\* A goroutine outside the store.
IdleGoroutine == [pc |-> "idle", op |-> "none", addr |-> EmptyStr, permanent |-> FALSE]

\* muWhitelist unlocked: no writer and no readers.
Unlocked == [w |-> "none", r |-> {}]

\* Every function taking the shared side of the lock.
LockKindAllShared(op) == "RLock"

\* The side of muWhitelist each function takes: Lock for the three mutators
\* and for DumpWhitelist, RLock for whitelisted and wlTemporarily.
LockKind(op) ==
    IF op \in {"whitelisted", "wlTemporarily"} THEN "RLock" ELSE "Lock"

\* A goroutine is blocked in muWhitelist.Lock().
WriterPending ==
    \E h \in Goroutines : goroutines[h].pc = "lock" /\ LockKind(goroutines[h].op) = "Lock"

\* sync.RWMutex: Lock returns when there is no writer and no reader; RLock
\* returns when there is no writer and no goroutine is blocked in Lock.
CanAcquire(g) ==
    IF LockKind(goroutines[g].op) = "Lock"
    THEN muWhitelist.w = "none" /\ muWhitelist.r = {}
    ELSE muWhitelist.w = "none" /\ ~WriterPending

\* The function is entered; its first statement of interest is the lock.
Enter(g, op, addr, permanent) ==
    /\ goroutines[g].pc = "idle"
    /\ goroutines' = [goroutines EXCEPT ![g] =
          [pc |-> "lock", op |-> op, addr |-> addr,
           permanent |-> (op = "AddToWl" /\ permanent)]]
    /\ UNCHANGED <<whitelist, forceWhitelist, last, dials, forceExclude, country, muWhitelist>>

\* muWhitelist.Lock() or muWhitelist.RLock() returns.
Acquire(g) ==
    /\ goroutines[g].pc = "lock"
    /\ CanAcquire(g)
    /\ muWhitelist' =
          IF LockKind(goroutines[g].op) = "Lock"
          THEN [muWhitelist EXCEPT !.w = g]
          ELSE [muWhitelist EXCEPT !.r = @ \cup {g}]
    /\ goroutines' = [goroutines EXCEPT ![g].pc = "access"]
    /\ UNCHANGED <<whitelist, forceWhitelist, last, dials, forceExclude, country>>

\* The body of the function: its reads and writes of the two maps.
Access(g) ==
    LET c == goroutines[g] IN
    /\ c.pc = "access"
    /\ whitelist' =
          IF c.op = "AddToWl" THEN AddToWlMap(whitelist, c.addr, c.permanent)
          ELSE IF c.op = "RemoveFromWl" THEN RemoveFromWlMap(whitelist, c.addr)
          ELSE whitelist
    /\ forceWhitelist' =
          IF c.op = "ForceWhitelist" THEN ForceWhitelistMap(forceWhitelist, c.addr)
          ELSE forceWhitelist
    /\ goroutines' = [goroutines EXCEPT ![g].pc = "unlock"]
    /\ UNCHANGED <<last, dials, forceExclude, country, muWhitelist>>

\* The deferred muWhitelist.Unlock() or muWhitelist.RUnlock().
Release(g) ==
    /\ goroutines[g].pc = "unlock"
    /\ muWhitelist' =
          IF LockKind(goroutines[g].op) = "Lock"
          THEN [muWhitelist EXCEPT !.w = "none"]
          ELSE [muWhitelist EXCEPT !.r = @ \ {g}]
    /\ goroutines' = [goroutines EXCEPT ![g] = IdleGoroutine]
    /\ UNCHANGED <<whitelist, forceWhitelist, last, dials, forceExclude, country>>

\* -------------------------------------------------------------- specifications
\* SetCountry(code): replaces the active ruleset in one step.
SetCountry(code) ==
    /\ country' = code
    /\ UNCHANGED <<whitelist, forceWhitelist, last, dials, forceExclude, lockVars>>

\* The state after construction but for the ruleset.
InitStore ==
    /\ whitelist = EmptyMap
    /\ forceWhitelist = EmptyMap
    /\ last = Call("none", EmptyStr, FALSE, FALSE, NoDump)
    /\ dials = [d \in Dials |-> IdleDial]
    /\ forceExclude = {}
    /\ muWhitelist = Unlocked
    /\ goroutines = [g \in Goroutines |-> IdleGoroutine]

\* No ruleset is configured until SetCountry is called.
Init == InitStore /\ country = "none"


\* The store's interface called in any order.
Next ==
    \/ \E addr \in Addrs : ForceWhitelist(addr)
    \/ \E addr \in Addrs, permanent \in BOOLEAN : AddToWl(addr, permanent)
    \/ \E addr \in Addrs : RemoveFromWl(addr)
    \/ DumpWhitelist
    \/ \E addr \in Addrs : Whitelisted(addr)
    \/ \E addr \in Addrs : WlTemporarily(addr)

Spec == Init /\ [][Next]_vars

\* Dial requests running concurrently with each other and with the
\* store's mutators.
DialNext ==
    \/ \E addr \in DialUserAddrs : ForceWhitelist(addr)
    \/ \E addr \in DialUserAddrs, permanent \in BOOLEAN : AddToWl(addr, permanent)
    \/ \E addr \in DialUserAddrs : RemoveFromWl(addr)
    \/ \E d \in Dials, addr \in DialAddrs : StartDial(d, addr)
    \/ \E d \in Dials : Route(d)
    \/ \E d \in Dials : DetourOnly(d)
    \/ \E d \in Dials : DirectDial(d)
    \/ \E d \in Dials : FirstRead(d)
    \/ \E d \in Dials : Classify(d)
    \/ \E d \in Dials : DetourFallback(d)
    \/ \E d \in Dials : DetourConnFails(d)
    \/ \E d \in Dials : DirectConnFails(d)
    \/ \E d \in Dials : Close(d)

\* The dials run with the ruleset of Iran configured, as TestIranRules
\* configures it before dialling.
DialInit == InitStore /\ country = "IR"

DialSpec == DialInit /\ [][DialNext]_vars

\* Dial requests running while the ruleset is switched.
HijackNext ==
    \/ \E code \in Countries : SetCountry(code)
    \/ \E d \in Dials, addr \in DialAddrs : StartDial(d, addr)
    \/ \E d \in Dials : Route(d)
    \/ \E d \in Dials : DetourOnly(d)
    \/ \E d \in Dials : DirectDial(d)
    \/ \E d \in Dials : FirstRead(d)
    \/ \E d \in Dials : Classify(d)
    \/ \E d \in Dials : DetourFallback(d)
    \/ \E d \in Dials : DetourConnFails(d)
    \/ \E d \in Dials : DirectConnFails(d)
    \/ \E d \in Dials : Close(d)

HijackSpec == Init /\ [][HijackNext]_vars

\* -------------------------------------------------------------- force exclusion
\* The addresses the force-exclude setter and the store's interface are
\* called with: a domain with a port, a subdomain of it and its parent.
OverlayAddrs == {A_bc8, A_abc, A_c}

\* forceUnwhitelist(host): the host is recorded as always excluded from the
\* detour.  whitelist.go keeps no such set; whitelisted reads forceWhitelist
\* and whitelist only.
ForceUnwhitelist(addr) ==
    /\ forceExclude' = forceExclude \cup {hostOnly(addr)}
    /\ last' = Call("ForceUnwhitelist", addr, FALSE, FALSE, NoDump)
    /\ UNCHANGED <<whitelist, forceWhitelist, dials, country, lockVars>>

OverlayNext ==
    \/ \E addr \in OverlayAddrs : ForceUnwhitelist(addr)
    \/ \E addr \in OverlayAddrs : ForceWhitelist(addr)
    \/ \E addr \in OverlayAddrs, permanent \in BOOLEAN : AddToWl(addr, permanent)
    \/ \E addr \in OverlayAddrs : RemoveFromWl(addr)
    \/ \E addr \in OverlayAddrs : Whitelisted(addr)

OverlaySpec == Init /\ [][OverlayNext]_vars

\* Goroutines calling the store's functions concurrently.
LockNext ==
    \/ \E g \in Goroutines, op \in StoreOps, addr \in LockAddrs, permanent \in BOOLEAN :
          Enter(g, op, addr, permanent)
    \/ \E g \in Goroutines : Acquire(g)
    \/ \E g \in Goroutines : Access(g)
    \/ \E g \in Goroutines : Release(g)

LockSpec == Init /\ [][LockNext]_vars

\* Dial requests whose store calls interleave with each other and with the
\* user's calls of AddToWl(H, true) and RemoveFromWl(H).
RaceNext ==
    \/ \E addr \in DialUserAddrs : AddToWl(addr, TRUE)
    \/ \E addr \in DialUserAddrs : RemoveFromWl(addr)
    \/ \E d \in Dials, addr \in DialAddrs : StartDial(d, addr)
    \/ \E d \in Dials : Route(d)
    \/ \E d \in Dials : DetourOnly(d)
    \/ \E d \in Dials : DirectDial(d)
    \/ \E d \in Dials : FirstRead(d)
    \/ \E d \in Dials : ClassifyCheck(d)
    \/ \E d \in Dials : ClassifyAct(d)
    \/ \E d \in Dials : DetourFallback(d)
    \/ \E d \in Dials : EvictCheck(d)
    \/ \E d \in Dials : EvictAct(d)
    \/ \E d \in Dials : Close(d)

RaceSpec == DialInit /\ [][RaceNext]_vars

\* The steps of a dial that do not wait for the outside world for longer
\* than the first-read timeout: routing and classification are local, and
\* the direct dial and the first read return at the latest when the timer
\* fires.  The detour function has no such bound.
\* At most one of them is enabled for a dial at a time.
BoundedStep(d) == Route(d) \/ DirectDial(d) \/ FirstRead(d) \/ Classify(d)

DialFairness == \A d \in Dials : WF_vars(BoundedStep(d))

\* Dial requests from their start to the return of the dial.
FairNext ==
    \/ \E d \in Dials, addr \in DialAddrs : StartDial(d, addr)
    \/ \E d \in Dials : Route(d)
    \/ \E d \in Dials : DetourOnly(d)
    \/ \E d \in Dials : DirectDial(d)
    \/ \E d \in Dials : FirstRead(d)
    \/ \E d \in Dials : Classify(d)
    \/ \E d \in Dials : DetourFallback(d)
    \/ \E d \in Dials : Close(d)

\* Dial requests under the first-read timeout.
FairSpec == DialInit /\ [][FairNext]_vars /\ DialFairness

\* -------------------------------------------------------------- properties
\* The elements of a sequence.
Range(q) == {q[i] : i \in 1..Len(q)}

\* h is the domain d or a subdomain of d at any depth: d is not empty and
\* is h itself or what follows one of the dots of h.
IsSubdomainOf(h, d) ==
    /\ d # EmptyStr
    /\ \/ h = d
       \/ \E i \in 1..Len(h) : h[i] = "." /\ SubSeq(h, i + 1, Len(h)) = d

\* The stored keys of both maps.
StoredKeys == (DOMAIN whitelist) \cup (DOMAIN forceWhitelist)

\* The host of the address, or one of its parent domains, is a key of wl or fw.
CoveredIn(wl, fw, addr) ==
    \E k \in (DOMAIN wl) \cup (DOMAIN fw) : IsSubdomainOf(hostOnly(addr), k)

CoveredByStored(addr) == CoveredIn(whitelist, forceWhitelist, addr)

\* C1: every domain D that AddToWl has stored (with or without a port,
\* permanent or temporary) makes whitelisted true for D and for every
\* subdomain of D at any depth, whatever port the looked-up address carries;
\* a lookup that returns reports the same.
C1_SubdomainsWhitelisted ==
    /\ \A D \in DOMAIN whitelist : \A H \in Addrs :
          IsSubdomainOf(hostOnly(H), D) => whitelisted(H)
    /\ (last.op = "whitelisted"
        /\ \E D \in DOMAIN whitelist : IsSubdomainOf(hostOnly(last.addr), D))
       => last.ret

\* b.c alone is stored and the lookup of a.b.c:9 has returned true.
C1_Witness ==
    /\ DOMAIN whitelist = {A_bc}
    /\ DOMAIN forceWhitelist = {}
    /\ last.op = "whitelisted" /\ last.addr = A_abc9 /\ last.ret

\* C2: whitelisted is false unless the host, or a parent domain obtained by
\* dropping whole leading labels, is a key of whitelist or forceWhitelist;
\* with b.c alone stored neither ab.c nor ba.c is whitelisted, and an empty
\* store whitelists nothing.
C2_LabelBoundaries ==
    /\ \A H \in Addrs : whitelisted(H) => CoveredByStored(H)
    /\ (last.op = "whitelisted" /\ last.ret) => CoveredByStored(last.addr)
    /\ StoredKeys = {A_bc} => ~whitelisted(A_xbc8) /\ ~whitelisted(A_bxc)
    /\ StoredKeys = {} => \A H \in Addrs : ~whitelisted(H)

\* b.c alone is stored and the lookup of ab.c:8 has returned false.
C2_Witness ==
    /\ StoredKeys = {A_bc}
    /\ last.op = "whitelisted" /\ last.addr = A_xbc8 /\ ~last.ret

\* C3: the sequence DumpWhitelist returns contains every key whose entry is
\* permanent and no key whose entry is temporary.
C3_DumpPermanentNotTemporary ==
    last.op = "DumpWhitelist" =>
        /\ \A k \in DOMAIN whitelist : whitelist[k].permanent => k \in Range(last.dump)
        /\ \A k \in DOMAIN whitelist : ~whitelist[k].permanent => k \notin Range(last.dump)

\* C4: every element of the sequence DumpWhitelist returns is a key with a
\* permanent entry, and the sequence has as many elements as there are
\* permanent entries (none when there are none).
C4_DumpOnlyPermanent ==
    last.op = "DumpWhitelist" =>
        /\ \A i \in 1..Len(last.dump) : last.dump[i] \in PermanentKeys(whitelist)
        /\ Len(last.dump) = Cardinality(PermanentKeys(whitelist))

\* C5 as claimed: once RemoveFromWl(H) has returned, whitelisted(H) is false.
C5_RemovedNotWhitelisted ==
    last.op = "RemoveFromWl" => ~whitelisted(last.addr)

\* C5 as amended: once RemoveFromWl(H) has returned, H is not a key of the
\* whitelist map, and it becomes one again only by AddToWl(H); whitelisted(H)
\* is false after the removal unless H is force-whitelisted or a parent
\* domain of H is a key of either map.
C5_RemovedUnlessCovered ==
    /\ [](last.op = "RemoveFromWl" =>
            /\ hostOnly(last.addr) \notin DOMAIN whitelist
            /\ ~CoveredByStored(last.addr) => ~whitelisted(last.addr))
    /\ [][\A k \in (DOMAIN whitelist') \ (DOMAIN whitelist) :
            last'.op = "AddToWl" /\ hostOnly(last'.addr) = k]_vars

\* b.c:8 was removed while stored and nothing else covers it.
C5_Witness ==
    /\ last.op = "RemoveFromWl" /\ last.addr = A_bc8
    /\ StoredKeys = {A_abc}
    /\ ~whitelisted(A_bc8)

\* Dial d takes a step out of state pc.
Leaves(d, pc) == dials[d].pc = pc /\ dials'[d] # dials[d]

\* The dial returns what the detour function returned, unmodified.
ReturnsDetourResult(c) ==
    \/ c.dres = "conn" /\ c.conn = "detour" /\ ~c.err
    \/ c.dres = "error" /\ c.conn = "none" /\ c.err

\* C6 as claimed: for a host that is not whitelisted when its outcome is
\* classified and a request that is safely retryable, each of the six
\* failure outcomes stores the host as temporary and ends in the dial
\* returning a detour connection and no error.
C6_FailuresReturnDetourConn ==
    [][\A d \in Dials :
        LET c == dials[d] IN
        /\ (Leaves(d, "Classify") /\ c.outcome \in Failures /\ ~c.transmitted
            /\ ~whitelisted(c.addr))
           => /\ dials'[d].pc = "DetourFallback"
              /\ wlTemporarilyIn(whitelist', c.addr)
        /\ Leaves(d, "DetourFallback")
           => /\ dials'[d].pc = "UseDetour"
              /\ dials'[d].conn = "detour" /\ ~dials'[d].err]_vars

\* C6 as amended: for a host that is not whitelisted when its outcome is
\* classified and a request that is safely retryable, each of the six
\* failure outcomes stores the host as temporary, and the dial then invokes
\* the detour function once and returns its result: a detour connection and
\* no error when the detour dial succeeds, the detour dial's error otherwise.
C6_FailuresFallBackToDetour ==
    [][\A d \in Dials :
        LET c == dials[d] IN
        /\ (Leaves(d, "Classify") /\ c.outcome \in Failures /\ ~c.transmitted
            /\ ~whitelisted(c.addr))
           => /\ dials'[d].pc = "DetourFallback"
              /\ wlTemporarilyIn(whitelist', c.addr)
        /\ Leaves(d, "DetourFallback")
           => /\ dials'[d].pc = "UseDetour"
              /\ dials'[d].outcome \in Failures
              /\ dials'[d].nDetour = 1
              /\ ReturnsDetourResult(dials'[d])]_vars

\* A dial whose content was hijacked has returned the detour connection
\* and its host is a temporary entry.
C6_Witness ==
    \E d \in Dials :
        /\ dials[d].pc = "UseDetour" /\ dials[d].outcome = "ContentHijacked"
        /\ dials[d].conn = "detour" /\ ~dials[d].err /\ dials[d].nDirect = 1
        /\ wlTemporarily(dials[d].addr)

\* C7: when the direct attempt to a host that is not whitelisted fails after
\* a non-idempotent payload was transmitted, the dial ends with an error and
\* without invoking the detour function, the host is stored as temporary,
\* and a dial routed from then on goes to the detour path, which starts with
\* no direct attempt made.
C7_NonIdempotentNotRetried ==
    /\ [][\A d \in Dials :
            LET c == dials[d] IN
            (Leaves(d, "Classify") /\ c.outcome \in Failures /\ c.transmitted
             /\ ~whitelisted(c.addr))
            => /\ dials'[d].pc = "UseDetour"
               /\ dials'[d].err /\ dials'[d].conn = "none"
               /\ dials'[d].nDetour = 0 /\ dials'[d].dres = "none"
               /\ wlTemporarilyIn(whitelist', c.addr)
               /\ RouteOf(whitelist', forceWhitelist', c.addr) = "DetourOnly"]_vars
    /\ [](\A d \in Dials :
            /\ (dials[d].pc = "UseDetour" /\ dials[d].transmitted)
               => (dials[d].err /\ dials[d].nDetour = 0)
            /\ dials[d].pc = "DetourOnly" => dials[d].nDirect = 0)

\* One dial has ended with an error after transmitting its payload, its host
\* is a temporary entry, and the other dial has been routed to the detour
\* path without a direct attempt.
C7_Witness ==
    \E d, e \in Dials :
        /\ dials[d].pc = "UseDetour" /\ dials[d].transmitted /\ dials[d].err
        /\ dials[d].nDetour = 0 /\ wlTemporarily(dials[d].addr)
        /\ dials[e].pc = "DetourOnly" /\ dials[e].nDirect = 0
        /\ dials[e].addr = dials[d].addr

\* C8 as claimed: when the detour connection to a temporarily whitelisted
\* host fails, the host is removed from the whitelist, whitelisted is then
\* false for it and a dial routed next attempts the direct path.
C8_EvictedNotWhitelisted ==
    [][\A d \in Dials :
        LET c == dials[d] IN
        (Leaves(d, "UseDetour") /\ dials'[d].pc = "Failed" /\ wlTemporarily(c.addr))
        => /\ hostOnly(c.addr) \notin DOMAIN whitelist'
           /\ ~whitelistedIn(whitelist', forceWhitelist', c.addr)
           /\ RouteOf(whitelist', forceWhitelist', c.addr) = "DirectAttempt"]_vars

\* C8 as amended: when the detour connection to a temporarily whitelisted
\* host fails, the host is removed from the whitelist map; whitelisted is
\* then false for it and a dial routed next attempts the direct path, unless
\* the host is force-whitelisted or one of its parent domains is a key of
\* either map.
C8_EvictedUnlessCovered ==
    [][\A d \in Dials :
        LET c == dials[d] IN
        (Leaves(d, "UseDetour") /\ dials'[d].pc = "Failed" /\ wlTemporarily(c.addr))
        => /\ hostOnly(c.addr) \notin DOMAIN whitelist'
           /\ forceWhitelist' = forceWhitelist
           /\ ~CoveredIn(whitelist', forceWhitelist', c.addr)
              => /\ ~whitelistedIn(whitelist', forceWhitelist', c.addr)
                 /\ RouteOf(whitelist', forceWhitelist', c.addr) = "DirectAttempt"]_vars

\* A detour connection has failed, nothing covers its host any more, and
\* the other dial to the same host is attempting the direct path.
C8_Witness ==
    \E d, e \in Dials :
        /\ dials[d].pc = "Failed" /\ dials[d].conn = "detour"
        /\ StoredKeys = {}
        /\ dials[e].pc = "DirectAttempt" /\ dials[e].addr = dials[d].addr

\* C9: a dial routed while its address is whitelisted (its host or a parent
\* domain is a stored key) goes to the detour path alone: it never invokes
\* the direct-dial function, invokes the detour function once, classifies
\* nothing, changes neither map, and returns the detour function's
\* connection or error as it is.
C9_WhitelistedDialsDetourOnly ==
    /\ [][\A d \in Dials :
            LET c == dials[d] IN
            /\ (Leaves(d, "Routing") /\ (whitelisted(c.addr) \/ CoveredByStored(c.addr)))
               => /\ dials'[d].pc = "DetourOnly"
                  /\ whitelist' = whitelist /\ forceWhitelist' = forceWhitelist
            /\ Leaves(d, "DetourOnly")
               => /\ dials'[d].pc = "UseDetour"
                  /\ dials'[d].nDirect = 0 /\ dials'[d].nDetour = 1
                  /\ dials'[d].outcome = "none"
                  /\ ReturnsDetourResult(dials'[d])
                  /\ whitelist' = whitelist /\ forceWhitelist' = forceWhitelist]_vars
    /\ [](\A d \in Dials :
            dials[d].pc = "DetourOnly"
            => (dials[d].nDirect = 0 /\ dials[d].nDetour = 0 /\ dials[d].outcome = "none"))

\* A dial of b.c:8, covered by the stored parent c alone, has returned the
\* detour function's error without a direct attempt.
C9_Witness ==
    \E d \in Dials :
        /\ dials[d].pc = "UseDetour" /\ dials[d].outcome = "none"
        /\ dials[d].nDirect = 0 /\ dials[d].nDetour = 1
        /\ dials[d].dres = "error" /\ dials[d].err
        /\ StoredKeys = {A_c}

\* C10: a dial whose outcome is Success returns the direct connection with
\* no error and without invoking the detour function, and its
\* classification leaves both maps unchanged.
C10_SuccessLeavesStore ==
    [][\A d \in Dials :
        LET c == dials[d] IN
        (Leaves(d, "Classify") /\ c.outcome = "Success")
        => /\ dials'[d].pc = "UseDirect"
           /\ dials'[d].conn = "direct" /\ ~dials'[d].err
           /\ dials'[d].nDirect = 1 /\ dials'[d].nDetour = 0
           /\ whitelist' = whitelist /\ forceWhitelist' = forceWhitelist]_vars

\* A dial has returned the direct connection and both maps are empty.
C10_Witness ==
    \E d \in Dials :
        /\ dials[d].pc = "UseDirect" /\ dials[d].outcome = "Success"
        /\ dials[d].conn = "direct" /\ ~dials[d].err
        /\ StoredKeys = {}


\* The address without its port: the text before its colon, or the whole
\* address when it has no colon.
HostPart(addr) ==
    IF \E i \in 1..Len(addr) : addr[i] = ":"
    THEN SubSeq(addr, 1, (CHOOSE i \in 1..Len(addr) :
                             addr[i] = ":" /\ \A j \in 1..(i - 1) : addr[j] # ":") - 1)
    ELSE addr

\* C11: wlTemporarily is true of an address exactly when the address without
\* its port is itself a key of whitelist stored with permanent = false, and a
\* call that returns reports the same; it is false for a subdomain of a
\* temporary host that is not stored itself, for a host stored permanent, and
\* for a host that is only in forceWhitelist.
C11_TemporaryExactHost ==
    /\ \A H \in Addrs :
          wlTemporarily(H) <=>
             \E k \in DOMAIN whitelist : k = HostPart(H) /\ ~whitelist[k].permanent
    /\ last.op = "wlTemporarily" =>
          (last.ret <=> \E k \in DOMAIN whitelist :
                           k = HostPart(last.addr) /\ ~whitelist[k].permanent)
    /\ (A_bc \in DOMAIN whitelist /\ A_abc \notin DOMAIN whitelist) => ~wlTemporarily(A_abc9)
    /\ (A_bc \in DOMAIN whitelist /\ whitelist[A_bc].permanent) => ~wlTemporarily(A_bc8)
    /\ (A_bc \in DOMAIN forceWhitelist /\ A_bc \notin DOMAIN whitelist) => ~wlTemporarily(A_bc8)

\* b.c is stored temporary and c is force whitelisted only; the call for
\* the subdomain a.b.c:9 has returned false while b.c:8 is temporary.
C11_Witness ==
    /\ A_bc \in DOMAIN whitelist /\ ~whitelist[A_bc].permanent
    /\ A_abc \notin DOMAIN whitelist
    /\ A_c \in DOMAIN forceWhitelist /\ A_c \notin DOMAIN whitelist
    /\ last.op = "wlTemporarily" /\ last.addr = A_abc9 /\ ~last.ret
    /\ wlTemporarily(A_bc8) /\ ~wlTemporarily(A_c)


\* C12: a host that has been force-excluded is never reported whitelisted
\* afterwards, even when it or a parent domain is a key of forceWhitelist or
\* of whitelist (permanent or temporary); a lookup that returns reports the
\* same.
C12_ForceExcludedNeverWhitelisted ==
    /\ \A H \in OverlayAddrs : hostOnly(H) \in forceExclude => ~whitelisted(H)
    /\ (last.op = "whitelisted" /\ hostOnly(last.addr) \in forceExclude) => ~last.ret


\* C13: only ForceWhitelist writes forceWhitelist and it only adds a key, so
\* AddToWl, RemoveFromWl and the steps of a dial (evictions included) leave
\* the map unchanged; every force whitelisted domain and every subdomain of
\* it is whitelisted in every later state.
C13_ForceWhitelistedAlways ==
    /\ [](\A k \in DOMAIN forceWhitelist : \A H \in Addrs :
             IsSubdomainOf(hostOnly(H), k) => whitelisted(H))
    /\ [][/\ DOMAIN forceWhitelist \subseteq DOMAIN forceWhitelist'
          /\ forceWhitelist' # forceWhitelist =>
                last'.op = "ForceWhitelist" /\ dials' = dials]_vars

\* c was force whitelisted; afterwards RemoveFromWl(c) was called and a
\* dial of b.c:8 failed on its detour connection (the eviction step), and
\* b.c:8 and a.b.c:9 are still whitelisted with an empty whitelist.
C13_Witness ==
    /\ A_c \in DOMAIN forceWhitelist
    /\ whitelist = EmptyMap
    /\ last.op = "RemoveFromWl" /\ last.addr = A_c
    /\ \E d \in Dials : dials[d].pc = "Failed" /\ dials[d].addr = A_bc8
    /\ whitelisted(A_bc8) /\ whitelisted(A_abc9)


\* The two outcomes of a first read that the ruleset recognised as tampered.
HijackOutcomes == {"ContentHijacked", "DNSHijacked"}

\* A first read without I/O error handed the classifier the block page of
\* Iran or a connection to the poisoned-DNS address of Iran.
IranEvidence(c) ==
    c.bytes # "none" /\ (c.bytes = "iranResp" \/ c.ip = "iranRedirectAddr")

\* C14 as claimed: with the ruleset of Iran configured, a first read that
\* returns without I/O error the forged block page, or on a connection to
\* the poisoned-DNS address, is classified as hijacked, the dial is routed
\* to the detour path and returns a detour connection and no error.
C14_HijackReturnsDetourConn ==
    [][\A d \in Dials :
        LET c == dials[d] IN
        /\ (Leaves(d, "ReadingFirst") /\ country = "IR" /\ IranEvidence(dials'[d]))
           => dials'[d].pc = "Classify" /\ dials'[d].outcome \in HijackOutcomes
        /\ (Leaves(d, "Classify") /\ c.outcome \in HijackOutcomes)
           => dials'[d].pc = "DetourFallback"
        /\ (Leaves(d, "DetourFallback") /\ c.outcome \in HijackOutcomes)
           => /\ dials'[d].pc = "UseDetour"
              /\ dials'[d].conn = "detour" /\ ~dials'[d].err]_vars

\* C14 as amended: with the ruleset of Iran configured, a first read that
\* returns without I/O error the forged block page, or on a connection to
\* the poisoned-DNS address, is classified as hijacked and the direct
\* connection is never returned; when the request is safely retryable the
\* dial invokes the detour function once and returns its result, a detour
\* connection and no error when the detour dial succeeds.
C14_HijackRoutedToDetour ==
    /\ [][\A d \in Dials :
            LET c == dials[d] IN
            /\ (Leaves(d, "ReadingFirst") /\ country = "IR" /\ IranEvidence(dials'[d]))
               => dials'[d].pc = "Classify" /\ dials'[d].outcome \in HijackOutcomes
            /\ (Leaves(d, "Classify") /\ c.outcome \in HijackOutcomes)
               => /\ dials'[d].pc # "UseDirect" /\ dials'[d].conn # "direct"
                  /\ ~c.transmitted => dials'[d].pc = "DetourFallback"
            /\ (Leaves(d, "DetourFallback") /\ c.outcome \in HijackOutcomes)
               => /\ dials'[d].pc = "UseDetour"
                  /\ dials'[d].nDetour = 1
                  /\ ReturnsDetourResult(dials'[d])
                  /\ dials'[d].dres = "conn"
                     => dials'[d].conn = "detour" /\ ~dials'[d].err]_vars
    /\ [](\A d \in Dials :
            dials[d].pc = "UseDirect" => dials[d].outcome = "Success")

\* Under the ruleset of Iran one dial whose content was hijacked and one
\* whose DNS answer was poisoned have both returned the detour connection
\* and no error.
C14_Witness ==
    /\ country = "IR"
    /\ \E d, e \in Dials :
          /\ dials[d].pc = "UseDetour" /\ dials[d].outcome = "ContentHijacked"
          /\ dials[d].conn = "detour" /\ ~dials[d].err /\ dials[d].nDirect = 1
          /\ dials[e].pc = "UseDetour" /\ dials[e].outcome = "DNSHijacked"
          /\ dials[e].conn = "detour" /\ ~dials[e].err /\ dials[e].nDirect = 1


\* The goroutine is inside the critical section of its function: between
\* the return of the lock call and the deferred unlock.
InCriticalSection(g) == goroutines[g].pc \in {"access", "unlock"}

\* The goroutine holds muWhitelist, exclusively or shared.
Holds(g) == muWhitelist.w = g \/ g \in muWhitelist.r

Mutators == {"ForceWhitelist", "AddToWl", "RemoveFromWl"}
ReadOnlyOps == {"whitelisted", "wlTemporarily", "DumpWhitelist"}

\* C15: while a goroutine is inside the critical section of ForceWhitelist,
\* AddToWl or RemoveFromWl no other goroutine is inside the critical section
\* of any function of the store; every goroutine accessing the maps holds
\* muWhitelist, and the maps change only in the access step of a mutator
\* that is alone in its critical section.
C15_MutationsExclusive ==
    /\ [](\A g \in Goroutines :
            /\ InCriticalSection(g) => Holds(g)
            /\ (InCriticalSection(g) /\ goroutines[g].op \in Mutators)
               => \A h \in Goroutines \ {g} : ~InCriticalSection(h))
    /\ [][(whitelist' # whitelist \/ forceWhitelist' # forceWhitelist)
          => \E g \in Goroutines :
                /\ goroutines[g].pc = "access" /\ goroutines'[g].pc = "unlock"
                /\ goroutines[g].op \in Mutators
                /\ muWhitelist.w = g /\ muWhitelist.r = {}
                /\ \A h \in Goroutines \ {g} : ~InCriticalSection(h)]_vars

\* AddToWl has written the temporary entry b.c and still holds the lock
\* while a lookup and a removal are blocked at their lock calls.
C15_Witness ==
    \E g, h, k \in Goroutines :
        /\ goroutines[g].op = "AddToWl" /\ goroutines[g].pc = "unlock"
        /\ muWhitelist.w = g
        /\ A_bc \in DOMAIN whitelist /\ ~whitelist[A_bc].permanent
        /\ goroutines[h].op = "whitelisted" /\ goroutines[h].pc = "lock"
        /\ goroutines[k].op = "RemoveFromWl" /\ goroutines[k].pc = "lock"

\* C16: a read-only function (whitelisted, wlTemporarily, DumpWhitelist)
\* that is at its lock call is not blocked while only read-only functions
\* are inside their critical sections or at their lock calls, so any two of
\* them can be inside their critical sections together.
C16_ReadsDoNotBlockReads ==
    \A g \in Goroutines :
        (/\ goroutines[g].pc = "lock"
         /\ \A h \in Goroutines : goroutines[h].op \in ReadOnlyOps \cup {"none"})
        => CanAcquire(g)


\* C17: no step of a dial, failure classification and eviction included,
\* turns a permanent entry into a temporary one or removes it: a host that
\* is stored permanent before the step is not temporary and is whitelisted
\* after it.
C17_PermanentSurvivesDials ==
    [][dials' # dials =>
          \A H \in DialUserAddrs \cup DialAddrs :
              (hostOnly(H) \in DOMAIN whitelist /\ whitelist[hostOnly(H)].permanent)
              => /\ ~wlTemporarilyIn(whitelist', H)
                 /\ whitelistedIn(whitelist', forceWhitelist', H)]_vars


\* C18: from every reachable state AddToWl(H, p) applied twice gives the
\* maps it gives applied once, and so does RemoveFromWl(H); RemoveFromWl of
\* a host that is not a key changes nothing; a call of AddToWl or
\* RemoveFromWl that repeats the call before it changes neither map, and
\* neither call ever changes forceWhitelist.
C18_AddRemoveIdempotent ==
    /\ [](\A H \in Addrs :
            /\ \A p \in BOOLEAN :
                  AddToWlMap(AddToWlMap(whitelist, H, p), H, p) = AddToWlMap(whitelist, H, p)
            /\ RemoveFromWlMap(RemoveFromWlMap(whitelist, H), H) = RemoveFromWlMap(whitelist, H)
            /\ HostPart(H) \notin DOMAIN whitelist => RemoveFromWlMap(whitelist, H) = whitelist)
    /\ [][/\ (last'.op \in {"AddToWl", "RemoveFromWl"} /\ last' = last)
             => whitelist' = whitelist
          /\ (last'.op = "RemoveFromWl" /\ HostPart(last'.addr) \notin DOMAIN whitelist)
             => whitelist' = whitelist
          /\ last'.op \in {"AddToWl", "RemoveFromWl"}
             => forceWhitelist' = forceWhitelist]_vars

\* RemoveFromWl(a.b.c) has returned while a.b.c is not stored and its parent
\* domains b.c (temporary) and c (permanent) still are.
C18_Witness ==
    /\ last.op = "RemoveFromWl" /\ last.addr = A_abc
    /\ DOMAIN whitelist = {A_bc, A_c}
    /\ ~whitelist[A_bc].permanent /\ whitelist[A_c].permanent


\* The pairs of different addresses that differ in their port only.
PortVariants == {v \in Addrs \X Addrs : v[1] # v[2] /\ HostPart(v[1]) = HostPart(v[2])}

\* C19: every key of whitelist and of forceWhitelist is a host without a
\* port; two addresses that differ in their port only give the same maps
\* under AddToWl, RemoveFromWl and ForceWhitelist and the same answers of
\* whitelisted and wlTemporarily; after AddToWl("b.c:8", true) every dump
\* contains "b.c" and whitelisted("b.c:9") is true.
C19_PortStripped ==
    /\ \A k \in StoredKeys : \A i \in 1..Len(k) : k[i] # ":"
    /\ \A v \in PortVariants :
          LET H1 == v[1]
              H2 == v[2]
          IN /\ \A p \in BOOLEAN :
                   AddToWlMap(whitelist, H1, p) = AddToWlMap(whitelist, H2, p)
             /\ RemoveFromWlMap(whitelist, H1) = RemoveFromWlMap(whitelist, H2)
             /\ ForceWhitelistMap(forceWhitelist, H1) = ForceWhitelistMap(forceWhitelist, H2)
             /\ whitelisted(H1) = whitelisted(H2)
             /\ wlTemporarily(H1) = wlTemporarily(H2)
    /\ (last.op = "AddToWl" /\ last.addr = A_bc8 /\ last.permanent)
       => /\ \A wl \in DumpResults(whitelist) : A_bc \in Range(wl)
          /\ whitelisted(A_bc9)

\* AddToWl("b.c:8", true) has returned and b.c is the only key.
C19_Witness ==
    /\ last.op = "AddToWl" /\ last.addr = A_bc8 /\ last.permanent
    /\ DOMAIN whitelist = {A_bc} /\ whitelist[A_bc].permanent
    /\ DOMAIN forceWhitelist = {}


\* The dial has its routing decision: the direct connection is returned, or
\* the detour path is taken (the detour function is being called or has
\* returned, or the dial has ended with the error of a direct attempt that
\* cannot be retried).
Resolved(d) == dials[d].pc \in {"UseDirect", "UseDetour", "DetourFallback", "DetourOnly"}

====
